---- MODULE Spec2Model ----
(***************************************************************************)
(* Model of duckdb_analyzer.py: the DuckDBAnalyzer facade (one method per  *)
(* SQL statement) and the command-line dispatcher main().                  *)
(*                                                                         *)
(* One invocation of main is a run of the program counter pc from "parse"  *)
(* to "done".  The embedded engine is modelled by Exec: the catalog is a   *)
(* function from table names to row sequences, a CSV file is a path with a *)
(* fixed row sequence, and every engine call may also fail on its own with *)
(* any of the three exception kinds main distinguishes.  A persistent      *)
(* database file (disk) carries the catalog from one invocation to the     *)
(* next; an in-memory database starts empty every time.                    *)
(***************************************************************************)
EXTENDS Integers, Sequences, FiniteSets, TLC

VARIABLES
    args,      \* the parsed command line (argparse Namespace)
    pc,        \* position of main
    conn,      \* "none" | "open" | "closed": analyzer.conn
    closes,    \* number of conn.close() calls in this invocation
    catalog,   \* tables of the open connection: name -> rows
    disk,      \* tables stored in the persistent database file
    pre,       \* catalog as it was when the connection was opened
    stmts,     \* SQL statements handed to conn.execute in this invocation
    out,       \* messages printed in this invocation
    exitCode,  \* process exit status, -1 while running
    raised,    \* kind of the exception that reached main's handlers
    last       \* last direct call of a facade method (library use)

vars == <<args, pc, conn, closes, catalog, disk, pre, stmts, out, exitCode, raised, last>>

(* ------------------------------ bounds --------------------------------- *)

\* CSV files csv(0) .. csv(MaxRows) exist; csv(i) has i data rows.
MaxRows == 2

(* ------------------------------ values --------------------------------- *)

\* Python None for a string-valued option.
NoneStr == "<None>"

\* "if x:" / "if not x:" on an optional string: None and "" are falsy.
Truthy(s) == s /= NoneStr /\ s /= ""

\* File paths.  kind "none" is args.file = None, "missing" a path that does
\* not exist, "dir" a path that exists but that the CSV reader cannot read
\* (a directory, an unreadable file), "csv" a readable CSV file with n rows.
NoFile == [kind |-> "none", n |-> 0]
MissingPath == [kind |-> "missing", n |-> 0]
DirPath == [kind |-> "dir", n |-> 0]
CsvPath(i) == [kind |-> "csv", n |-> i]
CsvFiles == {CsvPath(i) : i \in 0..MaxRows}
FileArgs == {NoFile, MissingPath, DirPath} \cup CsvFiles

\* "args.file" as a condition: a path was given (and is not empty).
FileGiven(f) == f.kind /= "none"

\* os.path.exists(path)
PathExists(f) == f.kind \in {"dir", "csv"}

\* Rows of a readable CSV file; a row carries the file it comes from.
FileRows(f) == [j \in 1..f.n |-> <<f.n, j>>]

\* Every CSV file of the model has the header a,b.
FileColumns(f) == <<"a", "b">>

TableNames == {"data", "other"}
TableArgs == TableNames \cup {""}
ColumnArgs == {NoneStr, "a", "zz"}
SqlArgs == {NoneStr, "SELECT 1", "DROP TABLE data", "SELEC"}
DbArgs == {":memory:", "analysis.db"}
Actions == {"count", "sample", "import", "stats", "schema", "compression", "group", "query"}

\* --limit default
DefaultLimit == 5
LimitArgs == {1, DefaultLimit}

\* argparse defaults (no flag given).  parse is what parse_args does with
\* the command line: "ok" returns the Namespace, "help" (-h, --help) prints
\* the help text and ends the process with status 0, "error" (--action
\* missing or outside the choices, a non-integer --limit, an unknown flag)
\* prints a usage error and ends it with status 2.
DefaultArgs == [parse |-> "ok", action |-> NoneStr, file |-> NoFile, db |-> ":memory:",
                table |-> "data", column |-> NoneStr, limit |-> DefaultLimit,
                random |-> FALSE, overwrite |-> FALSE, sql |-> NoneStr]
HelpArgv == [DefaultArgs EXCEPT !.parse = "help"]
BadArgv == [DefaultArgs EXCEPT !.parse = "error"]

\* The command lines: those parse_args accepts, with the Namespace it
\* returns, and the two kinds it ends the process on (no Namespace then).
ArgSpace == [parse : {"ok"}, action : Actions, file : FileArgs, db : DbArgs,
             table : TableArgs, column : ColumnArgs, limit : LimitArgs,
             random : BOOLEAN, overwrite : BOOLEAN, sql : SqlArgs]
            \cup {HelpArgv, BadArgv}

EmptyCatalog == [t \in {} |-> <<>>]

Min(a, b) == IF a <= b THEN a ELSE b

\* sample_rows of import_csv_to_table: <<>> is None, <<k>> is the integer k.
NoSample == <<>>

(* --------------------------- query builders ---------------------------- *)

\* A source string handed to FROM '<source>': a table name or a file path.
FileSrc(f) == [table |-> "", file |-> f]
TableSrc(t) == [table |-> t, file |-> NoFile]

Query(kind) == [kind |-> kind, src |-> FileSrc(NoFile), table |-> "", limit |-> NoSample,
                column |-> NoneStr, random |-> FALSE, sql |-> NoneStr]

\* count_rows: SELECT COUNT(*) AS rows FROM '<source>'
count_rows(source) == [Query("COUNT") EXCEPT !.src = source]

\* import_csv_to_table that always sends a LIMIT 1 (the branches mixed up
\* with a sampling import).
import_csv_to_table_limited(csv, t, sample_rows) ==
    [Query("CREATE") EXCEPT !.src = FileSrc(csv), !.table = t, !.limit = <<1>>]

\* import_csv_to_table: "if sample_rows:" is false for None and for 0, and
\* only a true value adds LIMIT <sample_rows> to CREATE TABLE ... AS SELECT.
import_csv_to_table(csv, t, sample_rows) ==
    IF sample_rows /= NoSample /\ sample_rows[1] /= 0
    THEN [Query("CREATE") EXCEPT !.src = FileSrc(csv), !.table = t, !.limit = sample_rows]
    ELSE [Query("CREATE") EXCEPT !.src = FileSrc(csv), !.table = t]

\* get_table_schema: DESCRIBE <table>
get_table_schema(t) == [Query("DESCRIBE") EXCEPT !.table = t]

\* get_compression_info: SELECT ... FROM pragma_storage_info('<table>') ...
get_compression_info(t) == [Query("STORAGE_INFO") EXCEPT !.table = t]

\* sample_data: USING SAMPLE <rows> ROWS when random, LIMIT <rows> otherwise
sample_data(source, rows, random) ==
    [Query("SAMPLE") EXCEPT !.src = source, !.limit = <<rows>>, !.random = random]

\* get_column_stats: one aggregate query over the column
get_column_stats(source, column) == [Query("STATS") EXCEPT !.src = source, !.column = column]

\* group_by_analysis: GROUP BY <column> ORDER BY count DESC
group_by_analysis(source, column) == [Query("GROUP") EXCEPT !.src = source, !.column = column]

\* get_column_names: SELECT * FROM '<source>' LIMIT 0
get_column_names(source) == [Query("PROBE") EXCEPT !.src = source]

\* table_exists: SELECT COUNT(*) FROM duckdb_tables() WHERE table_name = '<table>'
table_exists(t) == [Query("TABLE_EXISTS") EXCEPT !.table = t]

\* main, import branch: DROP TABLE <table>
drop_table(t) == [Query("DROP") EXCEPT !.table = t]

\* execute_query on the caller's SQL text
raw_query(sql) == [Query("RAW") EXCEPT !.sql = sql]

(* ------------------------------ engine --------------------------------- *)

Kinds == {"IO", "Catalog", "Other"}
Faults == Kinds \cup {"none"}

Result(err, cat, val, names) == [err |-> err, cat |-> cat, val |-> val, names |-> names]
Error(kind, cat) == Result(kind, cat, 0, <<>>)

Remove(cat, t) == [x \in DOMAIN cat \ {t} |-> cat[x]]
Put(cat, t, rows) == [x \in DOMAIN cat \cup {t} |-> IF x = t THEN rows ELSE cat[x]]

Limit(rows, lim) == IF lim = NoSample THEN rows ELSE SubSeq(rows, 1, Min(lim[1], Len(rows)))

\* What FROM '<source>' reads: a table of the catalog, or a file.
SourceError(src, cat) ==
    IF src.table /= ""
    THEN IF src.table \in DOMAIN cat THEN "none" ELSE "Catalog"
    ELSE IF src.file.kind = "csv" THEN "none" ELSE "IO"
SourceRows(src, cat) == IF src.table /= "" THEN cat[src.table] ELSE FileRows(src.file)

\* The statement's effect on the catalog and its result, when the engine
\* itself does not break down: a missing or unreadable file is an
\* IOException, a missing or already existing table a CatalogException, a
\* syntax or binder error any other exception.
Exec(q, cat) ==
    CASE q.kind \in {"COUNT", "SAMPLE", "PROBE", "STATS", "GROUP"} ->
           IF SourceError(q.src, cat) /= "none" THEN Error(SourceError(q.src, cat), cat)
           ELSE CASE q.kind = "COUNT" -> Result("none", cat, Len(SourceRows(q.src, cat)), <<>>)
                  [] q.kind = "SAMPLE" ->
                       Result("none", cat, Len(Limit(SourceRows(q.src, cat), q.limit)), <<>>)
                  [] q.kind = "PROBE" -> Result("none", cat, 0, FileColumns(q.src.file))
                  [] OTHER ->
                       IF \E i \in 1..Len(FileColumns(q.src.file)) :
                              FileColumns(q.src.file)[i] = q.column
                       THEN Result("none", cat, Len(SourceRows(q.src, cat)), <<>>)
                       ELSE Error("Other", cat)
      [] q.kind = "TABLE_EXISTS" ->
           Result("none", cat, IF q.table \in DOMAIN cat THEN 1 ELSE 0, <<>>)
      [] q.kind = "DROP" ->
           IF q.table = "" THEN Error("Other", cat)
           ELSE IF q.table \in DOMAIN cat THEN Result("none", Remove(cat, q.table), 0, <<>>)
           ELSE Error("Catalog", cat)
      [] q.kind = "CREATE" ->
           IF q.table = "" THEN Error("Other", cat)
           ELSE IF SourceError(q.src, cat) /= "none" THEN Error(SourceError(q.src, cat), cat)
           ELSE IF q.table \in DOMAIN cat THEN Error("Catalog", cat)
           ELSE Result("none", Put(cat, q.table, Limit(SourceRows(q.src, cat), q.limit)), 0, <<>>)
      [] q.kind \in {"DESCRIBE", "STORAGE_INFO"} ->
           IF q.table = "" THEN Error("Other", cat)
           ELSE IF q.table \in DOMAIN cat THEN Result("none", cat, 0, <<>>)
           ELSE Error("Catalog", cat)
      [] q.kind = "RAW" ->
           CASE q.sql = "SELECT 1" -> Result("none", cat, 1, <<>>)
             [] q.sql = "DROP TABLE data" ->
                  IF "data" \in DOMAIN cat THEN Result("none", Remove(cat, "data"), 0, <<>>)
                  ELSE Error("Catalog", cat)
             [] OTHER -> Error("Other", cat)

\* conn.execute(query): the engine breaks down with the given fault (the
\* statement then has no effect), or runs the statement.
Execute(q, cat, fault) == IF fault /= "none" THEN Error(fault, cat) ELSE Exec(q, cat)

\* execute_query(query, show) after its conn.execute has returned r: with
\* show it calls result.show() on what conn.execute returned.  Whether that
\* object has a show method depends on the installed engine (shows); when
\* it has none the call raises AttributeError after the statement has
\* taken effect.  The facade's own methods pass show=False, for which r is
\* returned as it is.
execute_query(r, show, shows) ==
    IF r.err = "none" /\ show /\ ~shows THEN Error("Other", r.cat) ELSE r

(* ----------------------------- dispatcher ------------------------------ *)

Msg(tag, val) == [msg |-> tag, val |-> val]

\* The file check made only for the actions that read the file.
FileNotFound_file_actions(a) ==
    a.action \in {"count", "sample", "import", "stats", "group"}
    /\ FileGiven(a.file) /\ ~PathExists(a.file)

\* main, line 295: a given path that does not exist.
FileNotFound(a) == FileGiven(a.file) /\ ~PathExists(a.file)

\* The flag tests without the --column tests of stats and group.
MissingFlag_no_column(a) ==
    CASE a.action \in {"count", "sample", "import", "stats", "group"} ->
           IF ~FileGiven(a.file) THEN "--file" ELSE ""
      [] a.action \in {"schema", "compression"} ->
           IF ~Truthy(a.table) THEN "--table" ELSE ""
      [] a.action = "query" ->
           IF ~Truthy(a.sql) THEN "--sql" ELSE ""
      [] OTHER -> ""

\* The "if not args.x: parser.error(...)" tests of the selected branch, in
\* the order the branch makes them: the first flag found missing, or "".
MissingFlag(a) ==
    CASE a.action \in {"count", "sample", "import"} ->
           IF ~FileGiven(a.file) THEN "--file" ELSE ""
      [] a.action \in {"stats", "group"} ->
           IF ~FileGiven(a.file) THEN "--file"
           ELSE IF ~Truthy(a.column) THEN "--column" ELSE ""
      [] a.action \in {"schema", "compression"} ->
           IF ~Truthy(a.table) THEN "--table" ELSE ""
      [] a.action = "query" ->
           IF ~Truthy(a.sql) THEN "--sql" ELSE ""
      [] OTHER -> ""

\* The first position of each branch after its flag tests.
Entry(action) ==
    CASE action = "count" -> "count"
      [] action = "sample" -> "sample"
      [] action = "import" -> "import_exists"
      [] action \in {"stats", "group"} -> "probe"
      [] action \in {"schema", "compression"} -> "table_check"
      [] OTHER -> "query"

\* What a branch prints before its first statement.
EntryOutput(a) ==
    CASE a.action = "sample" -> <<Msg("SampleHeader", a.limit)>>
      [] a.action = "query" -> <<Msg("QueryHeader", 0)>>
      [] OTHER -> <<>>

\* The import branch dropping an existing table whatever --overwrite says.
ImportDecision_always_drop(exists, overwrite) == IF exists THEN "drop" ELSE "create"

\* main, import branch, lines 317-322: what follows table_exists.
ImportDecision(exists, overwrite) ==
    IF exists THEN (IF overwrite THEN "drop" ELSE "refuse") ELSE "create"

\* The column test passing whenever the probe returned any column.
ColumnFound_any(column, names) == Len(names) > 0

\* "args.column not in columns" of the stats and group branches, negated.
ColumnFound(column, names) == \E i \in 1..Len(names) : names[i] = column

\* The except clauses with "except Exception" first: it catches everything.
ErrorMessage_generic_first(kind) == "UnexpectedError"

\* The except clauses of main: the message each exception kind prints.
ErrorMessage(kind) ==
    CASE kind = "IO" -> "IOError"
      [] kind = "Catalog" -> "CatalogError"
      [] OTHER -> "UnexpectedError"

\* parser.error, and a parse_args that rejects the command line, end the
\* process with SystemExit(2), which no except clause of main catches.
ArgparseExit == 2

\* __exit__ that does not close the connection.
ExitContext_no_close(c) == c

\* DuckDBAnalyzer.__exit__: self.conn.close()
ExitContext(c) == [conn |-> "closed", closes |-> c.closes + 1]

\* Leaving main: the with block, when it was entered, runs __exit__ first.
Leave(code, msgs, kind) ==
    LET c == IF conn = "open" THEN ExitContext([conn |-> conn, closes |-> closes])
             ELSE [conn |-> conn, closes |-> closes]
    IN /\ pc' = "done"
       /\ exitCode' = code
       /\ out' = out \o msgs
       /\ raised' = kind
       /\ conn' = c.conn
       /\ closes' = c.closes

\* The except clauses printing their message and falling through to the
\* "return 0" that ends main.
Fail_falls_through(kind) == Leave(0, <<Msg(ErrorMessage(kind), 0)>>, kind)

\* An exception of the given kind reaches the except clauses.
Fail(kind) == Leave(1, <<Msg(ErrorMessage(kind), 0)>>, kind)

\* The statement ran: go on at position p after printing msgs.
Goto(p, msgs) ==
    /\ pc' = p
    /\ out' = out \o msgs
    /\ UNCHANGED <<exitCode, raised, conn, closes>>

\* The engine commits every statement: a persistent database file holds
\* the catalog of the connection.
Store(cat) ==
    /\ catalog' = cat
    /\ disk' = IF args.db = ":memory:" THEN disk ELSE cat

(* ------------------------------- actions ------------------------------- *)

Init ==
    /\ args = DefaultArgs
    /\ pc = "idle"
    /\ conn = "none"
    /\ closes = 0
    /\ catalog = EmptyCatalog
    /\ disk = EmptyCatalog
    /\ pre = EmptyCatalog
    /\ stmts = <<>>
    /\ out = <<>>
    /\ exitCode = -1
    /\ raised = "none"
    /\ last = [op |-> "none", csv |-> NoFile, table |-> "", k |-> NoSample,
               err |-> "none", val |-> 0]

\* The process is started with a command line.
Invoke ==
    /\ pc = "idle"
    /\ \E a \in ArgSpace : args' = a
    /\ pc' = "parse"
    /\ UNCHANGED <<conn, closes, catalog, disk, pre, stmts, out, exitCode, raised, last>>

\* Lines 292-297: parse_args, then the file existence check.
ParseArgs ==
    /\ pc = "parse"
    /\ IF args.parse = "help"
       THEN Leave(0, <<Msg("Help", 0)>>, "none")
       ELSE IF args.parse = "error"
       THEN Leave(ArgparseExit, <<Msg("ArgparseError", 0)>>, "none")
       ELSE IF FileNotFound(args)
       THEN Leave(1, <<Msg("FileNotFound", 0)>>, "none")
       ELSE Goto("connect", <<>>)
    /\ UNCHANGED <<args, catalog, disk, pre, stmts, last>>

\* Line 300 and __init__: duckdb.connect(database=args.db).
Connect ==
    /\ pc = "connect"
    /\ \E fault \in Faults :
         IF fault /= "none"
         THEN /\ Fail(fault)
              /\ UNCHANGED <<catalog, pre>>
         ELSE /\ conn' = "open"
              /\ catalog' = (IF args.db = ":memory:" THEN EmptyCatalog ELSE disk)
              /\ pre' = catalog'
              /\ pc' = "dispatch"
              /\ UNCHANGED <<closes, out, exitCode, raised>>
    /\ UNCHANGED <<args, disk, stmts, last>>

\* The flag tests of the selected branch (parser.error when one fails).
Dispatch ==
    /\ pc = "dispatch"
    /\ IF MissingFlag(args) /= ""
       THEN Leave(ArgparseExit, <<Msg("ArgparseError", 0)>>, "none")
       ELSE Goto(Entry(args.action), EntryOutput(args))
    /\ UNCHANGED <<args, catalog, disk, pre, stmts, last>>

\* count branch: count_rows(args.file), then the two prints.
Count ==
    /\ pc = "count"
    /\ \E fault \in Faults :
         LET r == Execute(count_rows(FileSrc(args.file)), catalog, fault)
         IN IF r.err /= "none" THEN Fail(r.err)
            ELSE Leave(0, <<Msg("RowCount", r.val), Msg("FileSize", 0)>>, "none")
    /\ stmts' = Append(stmts, "COUNT")
    /\ UNCHANGED <<args, catalog, disk, pre, last>>

\* sample branch: sample_data(args.file, args.limit, args.random).
Sample ==
    /\ pc = "sample"
    /\ \E fault \in Faults :
         LET r == Execute(sample_data(FileSrc(args.file), args.limit, args.random), catalog, fault)
         IN IF r.err /= "none" THEN Fail(r.err)
            ELSE Leave(0, <<Msg("SampleRows", r.val)>>, "none")
    /\ stmts' = Append(stmts, "SAMPLE")
    /\ UNCHANGED <<args, catalog, disk, pre, last>>

\* import branch, lines 317-322: table_exists and what it decides.
ImportTableExists ==
    /\ pc = "import_exists"
    /\ \E fault \in Faults :
         LET r == Execute(table_exists(args.table), catalog, fault)
             d == ImportDecision(r.val > 0, args.overwrite)
         IN IF r.err /= "none" THEN Fail(r.err)
            ELSE IF d = "refuse" THEN Leave(1, <<Msg("TableExists", 0)>>, "none")
            ELSE Goto(d, <<>>)
    /\ stmts' = Append(stmts, "TABLE_EXISTS")
    /\ UNCHANGED <<args, catalog, disk, pre, last>>

\* import branch, line 319: DROP TABLE.
DropTable ==
    /\ pc = "drop"
    /\ \E fault \in Faults :
         LET r == Execute(drop_table(args.table), catalog, fault)
         IN /\ IF r.err /= "none" THEN Fail(r.err) ELSE Goto("create", <<>>)
            /\ Store(r.cat)
    /\ stmts' = Append(stmts, "DROP")
    /\ UNCHANGED <<args, pre, last>>

\* import branch, line 323: import_csv_to_table(args.file, args.table).
ImportCsv ==
    /\ pc = "create"
    /\ \E fault \in Faults :
         LET r == Execute(import_csv_to_table(args.file, args.table, NoSample), catalog, fault)
         IN /\ IF r.err /= "none" THEN Fail(r.err)
               ELSE Goto("count_table", <<Msg("ImportedIn", 0)>>)
            /\ Store(r.cat)
    /\ stmts' = Append(stmts, "CREATE")
    /\ UNCHANGED <<args, pre, last>>

\* import branch, lines 324-325: count_rows(args.table) and the print.
CountTable ==
    /\ pc = "count_table"
    /\ \E fault \in Faults :
         LET r == Execute(count_rows(TableSrc(args.table)), catalog, fault)
         IN IF r.err /= "none" THEN Fail(r.err)
            ELSE Leave(0, <<Msg("ImportedRows", r.val)>>, "none")
    /\ stmts' = Append(stmts, "COUNT")
    /\ UNCHANGED <<args, catalog, disk, pre, last>>

\* stats and group branches: get_column_names and the column test.
ColumnNames ==
    /\ pc = "probe"
    /\ \E fault \in Faults :
         LET r == Execute(get_column_names(FileSrc(args.file)), catalog, fault)
         IN IF r.err /= "none" THEN Fail(r.err)
            ELSE IF ~ColumnFound(args.column, r.names)
            THEN Leave(1, <<Msg("ColumnNotFound", 0)>>, "none")
            ELSE IF args.action = "stats" THEN Goto("stats", <<>>)
            ELSE Goto("group", <<Msg("GroupHeader", 0)>>)
    /\ stmts' = Append(stmts, "PROBE")
    /\ UNCHANGED <<args, catalog, disk, pre, last>>

\* stats branch: get_column_stats and the prints.
ColumnStats ==
    /\ pc = "stats"
    /\ \E fault \in Faults :
         LET r == Execute(get_column_stats(FileSrc(args.file), args.column), catalog, fault)
         IN IF r.err /= "none" THEN Fail(r.err)
            ELSE Leave(0, <<Msg("StatsHeader", 0), Msg("Stats", r.val)>>, "none")
    /\ stmts' = Append(stmts, "STATS")
    /\ UNCHANGED <<args, catalog, disk, pre, last>>

\* group branch: group_by_analysis and the prints.
GroupBy ==
    /\ pc = "group"
    /\ \E fault \in Faults :
         LET r == Execute(group_by_analysis(FileSrc(args.file), args.column), catalog, fault)
         IN IF r.err /= "none" THEN Fail(r.err)
            ELSE Leave(0, <<Msg("Groups", r.val), Msg("GroupsFooter", 0)>>, "none")
    /\ stmts' = Append(stmts, "GROUP")
    /\ UNCHANGED <<args, catalog, disk, pre, last>>

\* schema and compression branches: table_exists and the refusal.
CheckTable ==
    /\ pc = "table_check"
    /\ \E fault \in Faults :
         LET r == Execute(table_exists(args.table), catalog, fault)
         IN IF r.err /= "none" THEN Fail(r.err)
            ELSE IF ~(r.val > 0) THEN Leave(1, <<Msg("TableMissing", 0)>>, "none")
            ELSE IF args.action = "schema" THEN Goto("describe", <<Msg("SchemaHeader", 0)>>)
            ELSE Goto("storage", <<Msg("CompressionHeader", 0)>>)
    /\ stmts' = Append(stmts, "TABLE_EXISTS")
    /\ UNCHANGED <<args, catalog, disk, pre, last>>

\* schema branch: get_table_schema.
Describe ==
    /\ pc = "describe"
    /\ \E fault \in Faults :
         LET r == Execute(get_table_schema(args.table), catalog, fault)
         IN IF r.err /= "none" THEN Fail(r.err)
            ELSE Leave(0, <<Msg("Schema", 0)>>, "none")
    /\ stmts' = Append(stmts, "DESCRIBE")
    /\ UNCHANGED <<args, catalog, disk, pre, last>>

\* compression branch: get_compression_info.
StorageInfo ==
    /\ pc = "storage"
    /\ \E fault \in Faults :
         LET r == Execute(get_compression_info(args.table), catalog, fault)
         IN IF r.err /= "none" THEN Fail(r.err)
            ELSE Leave(0, <<Msg("Compression", 0)>>, "none")
    /\ stmts' = Append(stmts, "STORAGE_INFO")
    /\ UNCHANGED <<args, catalog, disk, pre, last>>

\* query branch: execute_query(args.sql), with the default show=True.
RawQuery ==
    /\ pc = "query"
    /\ \E fault \in Faults, shows \in BOOLEAN :
         LET r == execute_query(Execute(raw_query(args.sql), catalog, fault), TRUE, shows)
         IN /\ IF r.err /= "none" THEN Fail(r.err)
               ELSE Leave(0, <<Msg("QueryResult", r.val)>>, "none")
            /\ Store(r.cat)
    /\ stmts' = Append(stmts, "RAW")
    /\ UNCHANGED <<args, pre, last>>

\* The process has ended; only the database file outlives it.
ProcessExit ==
    /\ pc = "done"
    /\ pc' = "idle"
    /\ args' = DefaultArgs
    /\ conn' = "none"
    /\ closes' = 0
    /\ catalog' = EmptyCatalog
    /\ pre' = EmptyCatalog
    /\ stmts' = <<>>
    /\ out' = <<>>
    /\ exitCode' = -1
    /\ raised' = "none"
    /\ UNCHANGED <<disk, last>>

Next ==
    \/ Invoke
    \/ ParseArgs
    \/ Connect
    \/ Dispatch
    \/ Count
    \/ Sample
    \/ ImportTableExists
    \/ DropTable
    \/ ImportCsv
    \/ CountTable
    \/ ColumnNames
    \/ ColumnStats
    \/ GroupBy
    \/ CheckTable
    \/ Describe
    \/ StorageInfo
    \/ RawQuery
    \/ ProcessExit

Spec == Init /\ [][Next]_vars

(* ------------------------- the facade as a library --------------------- *)

\* A caller holds a DuckDBAnalyzer and calls its methods directly, in any
\* order; last records the call just made.  (stmts and out belong to an
\* invocation of main and stay empty here.)

\* Number of __exit__ calls the caller makes at most.
MaxCloses == 2

\* conn.execute on the caller's connection: a closed connection raises
\* (ConnectionException, neither an IOException nor a CatalogException).
ApiExecute(q, fault) ==
    IF conn /= "open" THEN Error("Other", catalog) ELSE Execute(q, catalog, fault)

SampleArgs == {NoSample} \cup {<<k>> : k \in 0..(MaxRows + 1)}

InitApi ==
    /\ args = DefaultArgs
    /\ pc = "api"
    /\ conn = "open"
    /\ closes = 0
    /\ catalog = EmptyCatalog
    /\ disk = EmptyCatalog
    /\ pre = EmptyCatalog
    /\ stmts = <<>>
    /\ out = <<>>
    /\ exitCode = -1
    /\ raised = "none"
    /\ last = [op |-> "none", csv |-> NoFile, table |-> "", k |-> NoSample,
               err |-> "none", val |-> 0]

\* analyzer.import_csv_to_table(csv, t, k)
ApiImport ==
    /\ pc = "api"
    /\ \E csv \in CsvFiles \cup {DirPath}, t \in TableNames, k \in SampleArgs, fault \in Faults :
         LET r == ApiExecute(import_csv_to_table(csv, t, k), fault)
         IN /\ catalog' = r.cat
            /\ pre' = catalog
            /\ last' = [op |-> "import", csv |-> csv, table |-> t, k |-> k,
                        err |-> r.err, val |-> 0]
    /\ UNCHANGED <<args, pc, conn, closes, disk, stmts, out, exitCode, raised>>

\* analyzer.count_rows(source) on a file or on a table
ApiCount ==
    /\ pc = "api"
    /\ \E src \in {FileSrc(f) : f \in CsvFiles \cup {DirPath}} \cup {TableSrc(t) : t \in TableNames},
          fault \in Faults :
         LET r == ApiExecute(count_rows(src), fault)
         IN last' = [op |-> "count", csv |-> src.file, table |-> src.table, k |-> NoSample,
                     err |-> r.err, val |-> r.val]
    /\ UNCHANGED <<args, pc, conn, closes, catalog, disk, pre, stmts, out, exitCode, raised>>

\* analyzer.conn.execute("DROP TABLE <t>")
ApiDrop ==
    /\ pc = "api"
    /\ \E t \in TableNames, fault \in Faults :
         LET r == ApiExecute(drop_table(t), fault)
         IN /\ catalog' = r.cat
            /\ pre' = catalog
            /\ last' = [op |-> "drop", csv |-> NoFile, table |-> t, k |-> NoSample,
                        err |-> r.err, val |-> 0]
    /\ UNCHANGED <<args, pc, conn, closes, disk, stmts, out, exitCode, raised>>

\* analyzer.execute_query(sql, show)
ApiExecuteQuery ==
    /\ pc = "api"
    /\ \E sql \in SqlArgs \ {NoneStr}, fault \in Faults, show \in BOOLEAN, shows \in BOOLEAN :
         LET r == execute_query(ApiExecute(raw_query(sql), fault), show, shows)
         IN /\ catalog' = r.cat
            /\ pre' = catalog
            /\ last' = [op |-> "execute", csv |-> NoFile, table |-> "", k |-> NoSample,
                        err |-> r.err, val |-> r.val]
    /\ UNCHANGED <<args, pc, conn, closes, disk, stmts, out, exitCode, raised>>

\* analyzer.__exit__(...): leaving a with block, or a direct call.  Closing
\* a closed connection does nothing more.
ApiExit ==
    /\ pc = "api"
    /\ closes < MaxCloses
    /\ LET c == ExitContext([conn |-> conn, closes |-> closes])
       IN /\ conn' = c.conn
          /\ closes' = c.closes
    /\ last' = [op |-> "exit", csv |-> NoFile, table |-> "", k |-> NoSample,
                err |-> "none", val |-> 0]
    /\ UNCHANGED <<args, pc, catalog, disk, pre, stmts, out, exitCode, raised>>

NextApi ==
    \/ ApiImport
    \/ ApiCount
    \/ ApiDrop
    \/ ApiExecuteQuery
    \/ ApiExit

SpecApi == InitApi /\ [][NextApi]_vars

(* ------------------------------- claims -------------------------------- *)

Done == pc = "done"
Has(seq, x) == \E i \in 1..Len(seq) : seq[i] = x
Printed(tag) == \E i \in 1..Len(out) : out[i].msg = tag
LastMsg == out[Len(out)]
ErrorTags == {"IOError", "CatalogError", "UnexpectedError"}
RefusalTags == {"FileNotFound", "TableExists", "ColumnNotFound", "TableMissing"}
ResultTags == {"FileSize", "SampleRows", "ImportedRows", "Stats", "GroupsFooter", "Schema",
               "Compression", "QueryResult"}
ErrorCount == Cardinality({i \in 1..Len(out) : out[i].msg \in ErrorTags})
ValidAction == args.action \in Actions
GivenButMissing == args.file.kind = "missing"

\* The required-argument matrix as the specification words it: --file for
\* count, sample, import and group; --column for stats and group; --table
\* for schema and compression; --sql for query.
StatedLacking ==
    \/ args.action \in {"count", "sample", "import", "group"} /\ args.file.kind = "none"
    \/ args.action \in {"stats", "group"} /\ args.column \in {NoneStr, ""}
    \/ args.action \in {"schema", "compression"} /\ args.table = ""
    \/ args.action = "query" /\ args.sql \in {NoneStr, ""}

\* The matrix the branches implement: stats needs --file as well.
Lacking ==
    \/ StatedLacking
    \/ args.action = "stats" /\ args.file.kind = "none"

\* C1 as stated: every invocation of main ends with exit code 0 or 1.
C1_ExitZeroOrOne == Done => exitCode \in {0, 1}

\* C1, amended: every invocation of main ends with exit code 0, 1 or 2: 2
\* when argparse rejects the command line (parse_args itself, or, once the
\* file check has passed and the connection is open, a flag the selected
\* action requires is missing), 1 after a file-not-found, table-exists,
\* column-not-found or table-missing message or an engine exception, and 0
\* when the selected action has completed or the help text was asked for.
C1_ExitCodes ==
    Done =>
      /\ exitCode \in {0, 1, 2}
      /\ exitCode = 2 <=> (args.parse = "error"
                            \/ (Lacking /\ ~GivenButMissing /\ raised = "none"))
      /\ exitCode = 2 <=> LastMsg.msg = "ArgparseError"
      /\ exitCode = 1 <=> LastMsg.msg \in RefusalTags \cup ErrorTags
      /\ exitCode = 0 <=> LastMsg.msg \in ResultTags \cup {"Help"}
      /\ LastMsg.msg = "Help" <=> args.parse = "help"
      /\ raised /= "none" => exitCode = 1

\* A required flag is missing for a valid action and the process ends with 2.
C1_Witness == Done /\ ValidAction /\ Lacking /\ exitCode = 2 /\ conn = "closed"

\* C2: in every terminal state the connection, if it was opened, is closed,
\* and close was called exactly once; it was never called otherwise.
C2_ClosedOnce ==
    /\ closes <= 1
    /\ conn = "closed" <=> closes = 1
    /\ Done => conn /= "open"
    /\ Done /\ (stmts /= <<>> \/ (Printed("ArgparseError") /\ ValidAction)) => conn = "closed"

\* An engine exception at the second statement or later, with the
\* connection closed.
C2_Witness == Done /\ conn = "closed" /\ raised /= "none" /\ Len(stmts) >= 2

\* An import with --file on an open connection whose catalog held the
\* target table when it was opened.
C3_Existed == args.action = "import" /\ FileGiven(args.file) /\ conn /= "none"
              /\ args.table \in DOMAIN pre

\* C3: import with --file onto a table that was in the catalog when the
\* connection was opened.  Without --overwrite no DROP and no CREATE is
\* issued, the catalog stays as it was and the exit code is 1.  With
\* --overwrite the statements are table_exists, DROP, CREATE in this order,
\* and after exit code 0 the table holds exactly the rows of the file.
C3_ImportOntoExisting ==
    /\ C3_Existed /\ ~args.overwrite =>
         /\ ~Has(stmts, "DROP") /\ ~Has(stmts, "CREATE")
         /\ catalog = pre
         /\ Done => exitCode = 1
    /\ C3_Existed /\ args.overwrite =>
         /\ Has(stmts, "CREATE") => Len(stmts) >= 3 /\ stmts[2] = "DROP" /\ stmts[3] = "CREATE"
         /\ Done /\ exitCode = 0 =>
              /\ catalog[args.table] = FileRows(args.file)
              /\ \A i \in 1..Len(pre[args.table]) :
                   pre[args.table][i][1] /= args.file.n => ~Has(catalog[args.table], pre[args.table][i])
              /\ \A t \in DOMAIN pre \ {args.table} : t \in DOMAIN catalog /\ catalog[t] = pre[t]

\* An overwrite that replaced two old rows by one new row.
C3_Witness ==
    /\ Done /\ C3_Existed /\ args.overwrite /\ exitCode = 0
    /\ Len(pre[args.table]) = 2 /\ Len(catalog[args.table]) = 1

\* A refused import onto an existing table.
C3_WitnessRefused == Done /\ C3_Existed /\ ~args.overwrite /\ Printed("TableExists")

\* --column is one of the column names of --file.
C4_ColumnKnown == args.column \in {FileColumns(args.file)[i] : i \in 1..Len(FileColumns(args.file))}

\* C4: for stats and group, once the column-names probe has returned and
\* --column is not among the names, the invocation prints "not found" and
\* exits 1 without issuing the aggregate query; the aggregate query is
\* issued only right after a probe whose names contain the column.
C4_ColumnPrevalidated ==
    args.action \in {"stats", "group"} =>
      /\ Has(stmts, "PROBE") /\ raised = "none" /\ ~C4_ColumnKnown =>
           /\ Done /\ exitCode = 1 /\ LastMsg.msg = "ColumnNotFound"
           /\ stmts = <<"PROBE">>
      /\ Has(stmts, "STATS") \/ Has(stmts, "GROUP") =>
           /\ C4_ColumnKnown
           /\ stmts \in {<<"PROBE", "STATS">>, <<"PROBE", "GROUP">>}
      /\ pc \in {"stats", "group"} => C4_ColumnKnown /\ stmts = <<"PROBE">>

\* stats on a column the file does not have.
C4_Witness == Done /\ args.action = "stats" /\ args.column = "zz" /\ Printed("ColumnNotFound")

\* C5 as stated: with the matrix as worded (stats: --column only), an
\* invocation lacking a listed argument issues no SQL, and one supplying
\* the listed arguments is not rejected for a missing argument.
C5_MatrixAsStated ==
    ValidAction =>
      /\ StatedLacking => stmts = <<>>
      /\ ~StatedLacking => ~Printed("ArgparseError")

\* C5, amended: count, sample, import, stats and group require --file;
\* stats and group also require --column; schema and compression require
\* --table; query requires --sql.  An invocation lacking one of them
\* issues no SQL statement and never exits 0; one supplying them is not
\* rejected by parser.error.
C5_Matrix ==
    ValidAction =>
      /\ Lacking => stmts = <<>> /\ (Done => exitCode /= 0)
      /\ Lacking /\ Done /\ conn = "closed" /\ raised = "none" => LastMsg.msg = "ArgparseError"
      /\ ~Lacking => ~Printed("ArgparseError")

\* stats with --column but without --file is rejected.
C5_Witness ==
    Done /\ args.action = "stats" /\ args.column = "a" /\ args.file.kind = "none"
    /\ Printed("ArgparseError")

\* The terminal state an exception leaves: exit code 1, one error message,
\* the one of its kind, printed last.
C6_State ==
    /\ raised /= "none" =>
         /\ Done /\ exitCode = 1 /\ conn /= "open"
         /\ ErrorCount = 1
         /\ LastMsg.msg = (IF raised = "IO" THEN "IOError"
                           ELSE IF raised = "Catalog" THEN "CatalogError"
                           ELSE "UnexpectedError")
    /\ raised = "none" => ErrorCount = 0

\* C6: an engine exception ends the invocation at once with exit code 1 and
\* exactly one error message, the one of its kind, printed last; nothing is
\* executed afterwards (the process ends).
C6_FailureIsTerminal ==
    /\ []C6_State
    /\ [][raised /= "none" => pc' = "idle" /\ stmts' = <<>>]_vars
    /\ [][raised = "none" /\ raised' /= "none" => Len(stmts') <= Len(stmts) + 1]_vars

\* A catalog failure of the third statement of an import.
C6_Witness == raised = "Catalog" /\ Len(stmts) = 3 /\ Printed("CatalogError")

\* C7: a completed import prints the row count N of the file, which is
\* what count_rows returns on the file and on the new table.
C7_ImportCount ==
    Done /\ args.action = "import" /\ exitCode = 0 =>
      /\ LastMsg = Msg("ImportedRows", args.file.n)
      /\ Exec(count_rows(FileSrc(args.file)), catalog).val = LastMsg.val
      /\ Exec(count_rows(TableSrc(args.table)), catalog).val = LastMsg.val

\* An import of the largest file into a table that was not there.
C7_Witness ==
    /\ Done /\ args.action = "import" /\ exitCode = 0
    /\ args.table \notin DOMAIN pre /\ args.file.n = MaxRows
    /\ LastMsg.val = MaxRows

\* C8: a given path that does not exist ends every action with the
\* file-not-found message and exit code 1 before the connection is opened
\* and before any SQL; schema and compression on a table that
\* table_exists reports absent end with the does-not-exist message and
\* exit code 1 without DESCRIBE or the storage query.
C8_Preflight ==
    /\ ValidAction /\ GivenButMissing /\ pc /= "parse" =>
         /\ Done /\ exitCode = 1 /\ out = <<Msg("FileNotFound", 0)>>
         /\ conn = "none" /\ closes = 0 /\ stmts = <<>>
    /\ args.action \in {"schema", "compression"} =>
         /\ Has(stmts, "DESCRIBE") \/ Has(stmts, "STORAGE_INFO") =>
              args.table \in DOMAIN pre /\ stmts[1] = "TABLE_EXISTS" /\ Len(stmts) = 2
         /\ stmts = <<"TABLE_EXISTS">> /\ raised = "none" /\ args.table \notin DOMAIN pre =>
              Done /\ exitCode = 1 /\ LastMsg.msg = "TableMissing"

\* The query action with a --file path that does not exist.
C8_Witness == Done /\ args.action = "query" /\ GivenButMissing /\ Printed("FileNotFound")

\* C9 as stated: after import_csv_to_table(csv, t, k) has succeeded the
\* table holds min(k, N) rows for every supplied k >= 0, and N rows when
\* sample_rows is omitted.
C9_LimitWheneverSupplied ==
    last.op = "import" /\ last.err = "none" =>
      Len(catalog[last.table]) = (IF last.k = NoSample THEN last.csv.n
                                  ELSE Min(last.k[1], last.csv.n))

\* C10 as stated: when an import invocation that targeted an existing table
\* has ended, the table exists and holds its previous rows or all rows of
\* the new file.
C10_TableSurvives ==
    Done /\ C3_Existed =>
      /\ args.table \in DOMAIN catalog
      /\ catalog[args.table] = pre[args.table]
           \/ (args.file.kind = "csv" /\ catalog[args.table] = FileRows(args.file))

====
